---------------------------- MODULE Spec2Model ----------------------------
(* State-machine model of download_dropout.py: the prerequisite check,    *)
(* the series-index walk, the per-show season walk with its incremental   *)
(* writes to urls.txt, and the yt-dlp dispatch.  The web site, the file   *)
(* system and the user (Ctrl-C) are the environment: every os.path.exists *)
(* and every session.get draws its outcome from a small set.              *)
EXTENDS Integers, Sequences, FiniteSets, TLC

\* ---------------------------------------------------------------- bounds
MaxPages == 2        \* index pages that answer 200 before the boundary
MaxItems == 3        \* <li> items the whole series index holds
MaxSeasons == 2      \* season pages of one show that carry links
MaxLinks == 3        \* episode anchors the whole catalog holds
MaxFailures == 1     \* failed attempts inside one blocking_get call
MaxInterrupts == 1   \* Ctrl-C presses in one run

\* ------------------------------------------------------- program constants
RequestDelay == 25   \* REQUEST_DELAY, in tenths of a second
BASE_URL == "https://watch.dropout.tv"
SERIES_INDEX == <<BASE_URL, "/series">>

\* ------------------------------------------------------------ environment
\* A URL is <<origin, path>>; an href without an origin is path-absolute.
NoLink == <<>>
NoTitle == ""
\* a line left in urls.txt by an earlier invocation, no longer in the catalog
StaleUrl == <<BASE_URL, "/removed-episode">>

\* the <li class="js-collection-item item-type-series"> items a page may hold
Items ==
  { [href |-> <<BASE_URL, "/a">>, title |-> "A"],
    [href |-> <<BASE_URL, "/a">>, title |-> NoTitle],
    [href |-> <<BASE_URL, "/b">>, title |-> "B"],
    [href |-> NoLink, title |-> "C"] }

\* the a.browse-item-link hrefs a season page may hold
Hrefs == { <<BASE_URL, "/e1">>, <<"", "/e2">> }

SeqsUpTo(S, n) == UNION { [1..k -> S] : k \in 0..n }

Range(s) == { s[k] : k \in 1..Len(s) }

RECURSIVE Flatten(_)
Flatten(ss) == IF ss = <<>> THEN <<>> ELSE Head(ss) \o Flatten(Tail(ss))

VARIABLES
  pc,             \* position of the main script
  status,         \* "running" | "terminated"
  exit_code,      \* process exit status once terminated
  cookies_ok,     \* outcome of the cookie test in check_prerequisites
  outfile,        \* lines of urls.txt
  all_series, seen, page,            \* locals of scrape_all_series
  show_i,         \* position of the for loop over series_list
  season, all_episodes,              \* locals of scrape_show_episodes
  episode_urls,   \* URLs of the current show still to be written
  total_urls,
  bg,             \* position inside blocking_get
  url, allow_400_stop, response,     \* blocking_get's arguments and result
  last_sleep,     \* duration of the latest time.sleep of this blocking_get
  network_used,   \* TRUE once session.get has been called
  failures,       \* failed attempts of the current blocking_get call
  interrupts,     \* Ctrl-C presses so far
  started,        \* number of subprocess.run calls
  console,        \* last outcome message printed by the script
  history         \* page bodies the current pagination loop has consumed

vars == << pc, status, exit_code, cookies_ok, outfile, all_series, seen, page,
           show_i, season, all_episodes, episode_urls, total_urls, bg, url,
           allow_400_stop, response, last_sleep, network_used, failures,
           interrupts, started, console, history >>

\* the groups of variables the actions leave alone
process == << status, exit_code >>
index_locals == << all_series, seen, page >>
show_locals == << season, all_episodes >>
call == << bg, url, allow_400_stop, response, last_sleep, failures >>

NoResponse == [status |-> 0, body |-> <<>>]
NoUrl == [base |-> <<>>, query |-> <<>>]

Init ==
  /\ pc = "check_prerequisites"
  /\ status = "running"
  /\ exit_code = 0
  /\ cookies_ok = "unchecked"
  /\ outfile \in { <<>>, <<StaleUrl>> }
  /\ all_series = <<>>
  /\ seen = {}
  /\ page = 1
  /\ show_i = 0
  /\ season = 0
  /\ all_episodes = <<>>
  /\ episode_urls = <<>>
  /\ total_urls = 0
  /\ bg = "idle"
  /\ url = NoUrl
  /\ allow_400_stop = FALSE
  /\ response = NoResponse
  /\ last_sleep = 0
  /\ network_used = FALSE
  /\ failures = 0
  /\ interrupts = 0
  /\ started = 0
  /\ console = "none"
  /\ history = <<>>

\* ---------------------------------------------------------- pure helpers
\* get_series_from_page, line 61
IndexUrl(page_num) ==
  [base |-> SERIES_INDEX,
   query |-> IF page_num = 1 THEN <<>> ELSE <<"page", page_num>>]

\* get_episode_links, line 104
SeasonUrl(show_url, season_number) ==
  [base |-> show_url, query |-> <<"season", season_number>>]

\* get_series_from_page, lines 67-79: items without a link are skipped, a
\* missing title becomes "Unknown", the href is kept as it is
RECURSIVE ParseSeries(_)
ParseSeries(body) ==
  IF body = <<>> THEN <<>>
  ELSE LET item == Head(body)
           rest == ParseSeries(Tail(body))
       IN IF item.href # NoLink
          THEN << [title |-> IF item.title # NoTitle THEN item.title
                             ELSE "Unknown",
                   url |-> item.href] >> \o rest
          ELSE rest

\* a slip MergeBatch could have: no membership test before the append
RECURSIVE MergeBatchNoSeenTest(_, _, _)
MergeBatchNoSeenTest(all, sn, batch) ==
  IF batch = <<>> THEN [all_series |-> all, seen |-> sn]
  ELSE MergeBatchNoSeenTest(Append(all, Head(batch)),
                            sn \cup {Head(batch).url}, Tail(batch))

\* scrape_all_series, lines 93-96
RECURSIVE MergeBatch(_, _, _)
MergeBatch(all, sn, batch) ==
  IF batch = <<>> THEN [all_series |-> all, seen |-> sn]
  ELSE LET s == Head(batch)
       IN IF s.url \notin sn
          THEN MergeBatch(Append(all, s), sn \cup {s.url}, Tail(batch))
          ELSE MergeBatch(all, sn, Tail(batch))

\* urllib.parse.urljoin for the two href shapes of Hrefs
urljoin(base, href) ==
  IF href[1] # "" THEN href ELSE <<base[1], href[2]>>

\* get_episode_links, lines 110-119
get_episode_links(show_url, body) ==
  [k \in 1..Len(body) |-> urljoin(show_url, body[k])]

\* a slip IndexLoopStops could have: an empty batch ends the walk as well
IndexLoopStopsOnEmpty(resp) ==
  resp.status = 400 \/ ParseSeries(resp.body) = <<>>

\* scrape_all_series, lines 89-91: the loop ends only on "batch is None",
\* and get_series_from_page returns None only for status 400 (lines 64-65)
IndexLoopStops(resp) == resp.status = 400

\* a slip SeasonLoopStops could have: the walk never ends on an empty page
SeasonLoopNeverStops(episodes) == FALSE

\* scrape_show_episodes, lines 133-135: the loop ends on "not episodes"
SeasonLoopStops(episodes) == episodes = <<>>

\* a slip check_prerequisites could have: report the missing file, go on
check_prerequisites_no_exit(exists) == "continue"

\* check_prerequisites, lines 252-258
check_prerequisites(exists) == IF exists THEN "continue" ELSE "exit"

\* a slip Truncate could have: the file is only ever opened for appending
TruncateAppendOnly(file) == file

\* __main__, lines 290-291: open(OUTPUT_FILE, "w")
Truncate(file) == <<>>

\* a slip ShouldDownload could have: the download is dispatched regardless
ShouldDownloadAlways(total) == TRUE

\* __main__, line 307
ShouldDownload(total) == total > 0

\* a slip Caught could have: the try of line 294 missing
CaughtOnlyInDownload(position) == position = "subprocess"

\* __main__, lines 294-304 and run_ytdlp, lines 228-234: the positions at
\* which a KeyboardInterrupt meets an except clause
Caught(position) == position \in {"shows", "season", "write", "subprocess"}

\* another script_exit_status: the downloader's return code is passed on
script_exit_status_propagating(returncode) == returncode

\* run_ytdlp, lines 228-234 and the end of __main__: the handlers only
\* print, and the script then falls off its end
script_exit_status(returncode) == 0

\* slips AfterAttempt could have: the 400 test of lines 41 and 50 missing,
\* or made without looking at allow_400_stop
AfterAttemptRetries400(out, allow) ==
  IF out.kind # "response" THEN "backoff"
  ELSE IF out.status >= 400 THEN "backoff"
  ELSE "polite"

AfterAttemptReturnsAny400(out, allow) ==
  IF out.kind # "response" THEN "backoff"
  ELSE IF out.status = 400 THEN "return"
  ELSE IF out.status >= 400 THEN "backoff"
  ELSE "polite"

\* blocking_get, lines 38-57: what one attempt leads to
AfterAttempt(out, allow) ==
  IF out.kind # "response" THEN "backoff"
  ELSE IF allow /\ out.status = 400 THEN "return"
  ELSE IF out.status >= 400 THEN "backoff"
  ELSE "polite"

\* blocking_get, lines 52 and 56
RetryMessage(out) ==
  IF out.kind # "response" THEN "Network error, retrying slowly..."
  ELSE IF out.status = 400 THEN "HTTP 400 error, retrying slowly..."
  ELSE "HTTP 500 error, retrying slowly..."

\* ------------------------------------------------ what the site may answer
\* items the index has served so far, anchors the catalog has served so far
ItemsServed == Len(Flatten(history))
LinksServed == total_urls + Len(all_episodes)

FailedAttempts ==
  IF failures < MaxFailures
  THEN { [kind |-> "response", status |-> 500, body |-> <<>>],
         [kind |-> "ConnectionError", status |-> 0, body |-> <<>>],
         [kind |-> "Timeout", status |-> 0, body |-> <<>>] }
  ELSE {}

IndexOutcomes ==
  { [kind |-> "response", status |-> 400, body |-> <<>>] }
  \cup FailedAttempts
  \cup (IF Len(history) < MaxPages
        THEN { [kind |-> "response", status |-> 200, body |-> b] :
               b \in SeqsUpTo(Items, MaxItems - ItemsServed) }
        ELSE {})

SeasonOutcomes ==
  { [kind |-> "response", status |-> 200, body |-> b] :
    b \in (IF Len(history) < MaxSeasons
           THEN SeqsUpTo(Hrefs, MaxLinks - LinksServed) ELSE {<<>>}) }
  \cup FailedAttempts
  \cup (IF failures < MaxFailures
        THEN { [kind |-> "response", status |-> 400, body |-> <<>>] }
        ELSE {})

Outcomes == IF pc = "index" THEN IndexOutcomes ELSE SeasonOutcomes

\* ----------------------------------------------------------- blocking_get
\* line 30: the call
StartGet(u, allow) ==
  /\ bg' = "request"
  /\ url' = u
  /\ allow_400_stop' = allow
  /\ response' = NoResponse
  /\ last_sleep' = 0
  /\ failures' = 0

\* lines 36-44 and 48-57: one session.get and the decision on its outcome
BlockingGetRequest ==
  /\ status = "running"
  /\ bg = "request"
  /\ network_used' = TRUE
  /\ \E out \in Outcomes :
       LET next == AfterAttempt(out, allow_400_stop)
       IN /\ bg' = CASE next = "return" -> "returned"
                     [] next = "backoff" -> "backoff_sleep"
                     [] OTHER -> "polite_sleep"
          /\ response' = IF next = "backoff" THEN NoResponse
                         ELSE [status |-> out.status, body |-> out.body]
          /\ failures' = IF next = "backoff" THEN failures + 1 ELSE failures
          /\ console' = IF next = "backoff" THEN RetryMessage(out)
                        ELSE "[GET]"
  /\ UNCHANGED << pc, process, cookies_ok, outfile, index_locals, show_i,
                  show_locals, episode_urls, total_urls, url, allow_400_stop,
                  last_sleep, interrupts, started, history >>

\* lines 53 and 57: time.sleep(REQUEST_DELAY * 2), then the loop again
BlockingGetBackoff ==
  /\ status = "running"
  /\ bg = "backoff_sleep"
  /\ last_sleep' = RequestDelay * 2
  /\ bg' = "request"
  /\ UNCHANGED << pc, process, cookies_ok, outfile, index_locals, show_i,
                  show_locals, episode_urls, total_urls, url, allow_400_stop,
                  response, network_used, failures, interrupts, started,
                  console, history >>

\* lines 45-46: time.sleep(REQUEST_DELAY); return response
BlockingGetReturn ==
  /\ status = "running"
  /\ bg = "polite_sleep"
  /\ last_sleep' = RequestDelay
  /\ bg' = "returned"
  /\ UNCHANGED << pc, process, cookies_ok, outfile, index_locals, show_i,
                  show_locals, episode_urls, total_urls, url, allow_400_stop,
                  response, network_used, failures, interrupts, started,
                  console, history >>

\* ------------------------------------------------------------ main script
\* lines 272-288: the cookie test, then the call of scrape_all_series
CheckPrerequisites ==
  /\ status = "running"
  /\ pc = "check_prerequisites"
  /\ \E exists \in BOOLEAN :
       /\ cookies_ok' = IF exists THEN "found" ELSE "missing"
       /\ IF check_prerequisites(exists) = "exit"
          THEN /\ status' = "terminated"
               /\ exit_code' = 1
               /\ console' = "[CRITICAL ERROR] Cookies file not found"
               /\ UNCHANGED << pc, call >>
          ELSE /\ pc' = "index"
               /\ console' = "--- Finding all Series ---"
               /\ StartGet(IndexUrl(1), TRUE)
               /\ UNCHANGED process
  /\ all_series' = <<>>
  /\ seen' = {}
  /\ page' = 1
  /\ UNCHANGED << outfile, show_i, show_locals, episode_urls, total_urls,
                  network_used, interrupts, started, history >>

\* get_series_from_page after its GET, and one turn of scrape_all_series;
\* on the return (lines 99-100) the locals other than the result are gone
ScrapeAllSeriesStep ==
  /\ status = "running"
  /\ pc = "index"
  /\ bg = "returned"
  /\ IF IndexLoopStops(response)
     THEN /\ pc' = "truncate"
          /\ console' = "Total Series Found"
          /\ seen' = {}
          /\ page' = 1
          /\ history' = <<>>
          /\ bg' = "idle"
          /\ url' = NoUrl
          /\ response' = NoResponse
          /\ last_sleep' = 0
          /\ UNCHANGED << all_series, allow_400_stop, failures >>
     ELSE LET batch == ParseSeries(response.body)
              m == MergeBatch(all_series, seen, batch)
          IN /\ all_series' = m.all_series
             /\ seen' = m.seen
             /\ page' = page + 1
             /\ history' = Append(history, response.body)
             /\ StartGet(IndexUrl(page + 1), TRUE)
             /\ UNCHANGED << pc, console >>
  /\ UNCHANGED << process, cookies_ok, outfile, show_i, show_locals,
                  episode_urls, total_urls, network_used, interrupts,
                  started >>

\* lines 289-296: truncate urls.txt, reopen it for appending, enter the loop
TruncateOutput ==
  /\ status = "running"
  /\ pc = "truncate"
  /\ outfile' = Truncate(outfile)
  /\ total_urls' = 0
  /\ show_i' = 1
  /\ pc' = "shows"
  /\ console' = "--- Scraping Episodes & Writing to File ---"
  /\ UNCHANGED << process, cookies_ok, index_locals, show_locals,
                  episode_urls, call, network_used, interrupts, started,
                  history >>

\* line 296 and lines 123-131: the next show, or the end of the loop
NextShow ==
  /\ status = "running"
  /\ pc = "shows"
  /\ IF show_i > Len(all_series)
     THEN /\ pc' = "post"
          /\ UNCHANGED << show_locals, history, call >>
     ELSE /\ pc' = "season"
          /\ season' = 1
          /\ all_episodes' = <<>>
          /\ history' = <<>>
          /\ StartGet(SeasonUrl(all_series[show_i].url, 1), FALSE)
  /\ UNCHANGED << process, cookies_ok, outfile, index_locals, show_i,
                  episode_urls, total_urls, network_used, interrupts, started,
                  console >>

\* get_episode_links after its GET, and one turn of scrape_show_episodes
ScrapeShowStep ==
  /\ status = "running"
  /\ pc = "season"
  /\ bg = "returned"
  /\ LET episodes == get_episode_links(all_series[show_i].url, response.body)
     IN IF SeasonLoopStops(episodes)
        THEN /\ pc' = "write"
             /\ episode_urls' = all_episodes
             /\ bg' = "idle"
             /\ UNCHANGED << show_locals, history, url, allow_400_stop,
                             response, last_sleep, failures >>
        ELSE /\ all_episodes' = all_episodes \o episodes
             /\ season' = season + 1
             /\ history' = Append(history, response.body)
             /\ StartGet(SeasonUrl(all_series[show_i].url, season + 1), FALSE)
             /\ UNCHANGED << pc, episode_urls >>
  /\ UNCHANGED << process, cookies_ok, outfile, index_locals, show_i,
                  total_urls, network_used, interrupts, started, console >>

\* lines 300-302: one f.write, or the end of the inner loop
WriteUrl ==
  /\ status = "running"
  /\ pc = "write"
  /\ IF episode_urls = <<>>
     THEN /\ pc' = "shows"
          /\ show_i' = show_i + 1
          /\ all_episodes' = <<>>
          /\ UNCHANGED << outfile, total_urls, episode_urls >>
     ELSE /\ outfile' = Append(outfile, Head(episode_urls))
          /\ total_urls' = total_urls + 1
          /\ episode_urls' = Tail(episode_urls)
          /\ UNCHANGED << pc, show_i, all_episodes >>
  /\ UNCHANGED << process, cookies_ok, index_locals, season, call,
                  network_used, interrupts, started, console, history >>

\* lines 306-310
Finish ==
  /\ status = "running"
  /\ pc = "post"
  /\ IF ShouldDownload(total_urls)
     THEN /\ pc' = "run_ytdlp"
          /\ console' = "Scraping Finished."
          /\ UNCHANGED process
     ELSE /\ pc' = "end"
          /\ console' = "No URLs found. Exiting."
          /\ status' = "terminated"
          /\ exit_code' = 0
  /\ UNCHANGED << cookies_ok, outfile, index_locals, show_i, show_locals,
                  episode_urls, total_urls, call, network_used, interrupts,
                  started, history >>

\* run_ytdlp, lines 185-229: the two early returns, or subprocess.run
RunYtdlp ==
  /\ status = "running"
  /\ pc = "run_ytdlp"
  /\ \E cookies \in BOOLEAN, binary \in BOOLEAN :
       IF ~cookies \/ ~binary
       THEN /\ console' = IF ~cookies THEN "ERROR: cookies file is missing"
                          ELSE "ERROR: yt-dlp binary not found"
            /\ pc' = "end"
            /\ status' = "terminated"
            /\ exit_code' = 0
            /\ UNCHANGED started
       ELSE /\ console' = "STARTING YT-DLP DOWNLOAD"
            /\ pc' = "subprocess"
            /\ started' = started + 1
            /\ UNCHANGED process
  /\ UNCHANGED << cookies_ok, outfile, index_locals, show_i, show_locals,
                  episode_urls, total_urls, call, network_used, interrupts,
                  history >>

\* run_ytdlp, lines 229-232: the downloader ends with some return code
SubprocessExit ==
  /\ status = "running"
  /\ pc = "subprocess"
  /\ \E returncode \in {0, 1} :
       /\ console' = IF returncode = 0 THEN "Download batch complete."
                     ELSE "yt-dlp encountered an error"
       /\ exit_code' = script_exit_status(returncode)
  /\ pc' = "end"
  /\ status' = "terminated"
  /\ UNCHANGED << cookies_ok, outfile, index_locals, show_i, show_locals,
                  episode_urls, total_urls, call, network_used, interrupts,
                  started, history >>

\* Ctrl-C at any point.  Inside the try of lines 294-304 it is caught and the
\* script goes on at line 306; inside subprocess.run it is caught by line 233;
\* anywhere else nothing catches it and the interpreter dies with a traceback
\* (exit status 130 on POSIX).
KeyboardInterrupt ==
  /\ status = "running"
  /\ interrupts < MaxInterrupts
  /\ interrupts' = interrupts + 1
  /\ IF Caught(pc)
     THEN IF pc = "subprocess"
          THEN /\ console' = "Download cancelled by user."
               /\ pc' = "end"
               /\ status' = "terminated"
               /\ exit_code' = 0
               /\ UNCHANGED << bg, show_locals, episode_urls >>
          ELSE /\ console' = "Scraping interrupted!"
               /\ pc' = "post"
               /\ bg' = "idle"
               /\ all_episodes' = <<>>
               /\ episode_urls' = <<>>
               /\ UNCHANGED << process, season >>
     ELSE /\ console' = "Traceback: KeyboardInterrupt"
          /\ status' = "terminated"
          /\ exit_code' = 130
          /\ UNCHANGED << pc, bg, show_locals, episode_urls >>
  /\ UNCHANGED << cookies_ok, outfile, index_locals, show_i, total_urls, url,
                  allow_400_stop, response, last_sleep, network_used,
                  failures, started, history >>

Next ==
  \/ CheckPrerequisites
  \/ BlockingGetRequest
  \/ BlockingGetBackoff
  \/ BlockingGetReturn
  \/ ScrapeAllSeriesStep
  \/ TruncateOutput
  \/ NextShow
  \/ ScrapeShowStep
  \/ WriteUrl
  \/ Finish
  \/ RunYtdlp
  \/ SubprocessExit
  \/ KeyboardInterrupt

Spec == Init /\ [][Next]_vars

\* ------------------------------------------------------------- properties
\* the series records of the index pages consumed, in page order
ParsedPages(h) == Flatten([k \in 1..Len(h) |-> ParseSeries(h[k])])

\* the first k records of s, each kept only if no earlier one has its URL
RECURSIVE KeepFirst(_, _)
KeepFirst(s, k) ==
  IF k = 0 THEN <<>>
  ELSE IF \A j \in 1..(k - 1) : s[j].url # s[k].url
       THEN Append(KeepFirst(s, k - 1), s[k])
       ELSE KeepFirst(s, k - 1)

Deduplicated(s) == KeepFirst(s, Len(s))

\* the episode URLs of the season pages consumed, in season then page order
JoinedPages(show_url, h) ==
  Flatten([k \in 1..Len(h) |-> get_episode_links(show_url, h[k])])

AfterTruncate ==
  pc \in {"shows", "season", "write", "post", "run_ytdlp", "subprocess", "end"}

InTry == pc \in {"shows", "season", "write"}

RetryMessages ==
  { "Network error, retrying slowly...", "HTTP 400 error, retrying slowly...",
    "HTTP 500 error, retrying slowly..." }

\* C1: a run whose check_prerequisites finds the cookie file absent is over
\* at once, with a non-zero exit status and without any GET issued.
C1_MissingCookiesExitBeforeNetwork ==
  cookies_ok = "missing" =>
    /\ status = "terminated"
    /\ exit_code # 0
    /\ ~network_used
    /\ bg = "idle"

C1_Witness ==
  cookies_ok = "missing" /\ status = "terminated" /\ exit_code = 1

\* C2 as stated: from the first request to the series index onward the
\* output file holds no line left over from an earlier invocation.
C2_TruncatedBeforeFirstRequest ==
  network_used => StaleUrl \notin Range(outfile)

\* C2 amended: the file is truncated after the series-index walk; from the
\* start of the episode scrape onward it holds exactly the URLs this run
\* wrote, however the run ends.
C2_TruncatedBeforeEpisodeScrape ==
  AfterTruncate =>
    /\ StaleUrl \notin Range(outfile)
    /\ Len(outfile) = total_urls

C2_Witness ==
  status = "terminated" /\ AfterTruncate /\ total_urls > 0

\* C3 as stated: an interrupt during the series-index walk, the episode
\* scrape or the downloader invocation is caught, and after an interrupt in
\* the scrape phase the run goes on after the scrape.
C3_InterruptAlwaysCaught ==
  [][ (interrupts' > interrupts
       /\ pc \in {"index", "shows", "season", "write", "subprocess"})
      => /\ ~(status' = "terminated" /\ exit_code' # 0)
         /\ (pc # "subprocess" => status' = "running" /\ pc' = "post") ]_vars

\* C3 amended: an interrupt inside the episode scrape is caught, keeps what
\* was written and goes on to line 306, from where the downloader is
\* dispatched if any URL was written; an interrupt inside the downloader
\* invocation is caught and the script ends normally; an interrupt during
\* the series-index walk is not caught and ends the process with an error.
C3_InterruptCaughtInTryBlocks ==
  [][ /\ (interrupts' > interrupts /\ InTry)
         => /\ status' = "running" /\ pc' = "post"
            /\ outfile' = outfile /\ total_urls' = total_urls
      /\ (interrupts' > interrupts /\ pc = "subprocess")
         => /\ status' = "terminated" /\ exit_code' = 0
            /\ console' = "Download cancelled by user."
      /\ (interrupts' > interrupts /\ pc = "index")
         => status' = "terminated" /\ exit_code' # 0
      /\ (interrupts' = interrupts /\ pc = "post")
         => IF total_urls > 0 THEN pc' = "run_ytdlp" /\ status' = "running"
            ELSE pc' = "end" /\ started' = 0 ]_vars

C3_Witness ==
  /\ pc = "subprocess" /\ status = "running"
  /\ interrupts > 0 /\ total_urls > 0
  /\ show_i <= Len(all_series)

FailedOutcomeMessages ==
  { "No URLs found. Exiting.", "ERROR: yt-dlp binary not found",
    "yt-dlp encountered an error" }

\* C4 as stated: with the cookie file present, a run that found no URL or
\* whose downloader failed ends with another exit status than a run whose
\* downloader succeeded (which ends with script_exit_status(0)).
C4_ExitCodeReflectsOutcome ==
  (status = "terminated" /\ cookies_ok = "found"
   /\ console \in FailedOutcomeMessages)
  => exit_code # script_exit_status(0)

\* C4 amended: with the cookie file present, every run that reaches the end
\* of the script exits with status 0, whether no URL was found, the
\* downloader was missing, failed or succeeded; the outcome shows on the
\* console only.
C4_ExitCodeIsZeroAtEnd ==
  (status = "terminated" /\ pc = "end") =>
    /\ exit_code = 0
    /\ cookies_ok = "found"
    /\ console \in FailedOutcomeMessages
                   \cup { "Download batch complete.",
                          "Download cancelled by user.",
                          "ERROR: cookies file is missing" }

C4_Witness ==
  /\ status = "terminated" /\ pc = "end"
  /\ console = "yt-dlp encountered an error"
  /\ exit_code = 0

\* C5: the downloader is started at most once, and only in a run with
\* total_urls > 0; run_ytdlp is not even entered with zero URLs.
C5_NoDownloadWithoutUrls ==
  /\ started <= 1
  /\ (started > 0 \/ pc \in {"run_ytdlp", "subprocess"}) => total_urls > 0
  /\ (pc = "end" /\ total_urls = 0) => console = "No URLs found. Exiting."

C5_Witness ==
  /\ status = "terminated" /\ pc = "end"
  /\ total_urls = 0 /\ started = 0
  /\ Len(all_series) > 0

\* C6: while index pages are merged, the list is the records of the pages
\* read so far with every URL kept once, at its first occurrence, and seen is
\* the set of the list's URLs.
C6_SeriesDeduplicated ==
  /\ \A i, j \in 1..Len(all_series) :
       all_series[i].url = all_series[j].url => i = j
  /\ pc = "index" =>
       /\ all_series = Deduplicated(ParsedPages(history))
       /\ seen = { all_series[k].url : k \in 1..Len(all_series) }
       /\ page = Len(history) + 1

C6_Witness ==
  /\ pc = "index" /\ Len(history) = 2
  /\ Len(ParseSeries(history[1])) = 2
  /\ Len(ParseSeries(history[2])) = 1
  /\ Len(all_series) = 2
  /\ ParseSeries(history[2])[1].url = all_series[1].url
  /\ ParseSeries(history[2])[1].title # all_series[1].title

\* C7: a 400 from index page p is not retried; the walk ends there without
\* error, requests nothing more, and returns the de-duplicated series of
\* pages 1..p-1.
C7_BoundaryStopsWalk ==
  /\ [](pc = "index" => console # "HTTP 400 error, retrying slowly...")
  /\ [][ (pc = "index" /\ bg = "returned" /\ response.status = 400
          /\ interrupts' = interrupts)
         => /\ pc' = "truncate" /\ status' = "running" /\ bg' = "idle"
            /\ url = IndexUrl(page) /\ page = Len(history) + 1
            /\ all_series' = all_series
            /\ all_series = Deduplicated(ParsedPages(history)) ]_vars
  /\ [][ pc \notin {"check_prerequisites", "index"} => pc' # "index" ]_vars

C7_Witness ==
  /\ pc = "index" /\ bg = "returned" /\ response.status = 400
  /\ page = 2 /\ Len(all_series) = 2

\* C8: the season walk of a show asks for season k+1 only after seasons 1..k
\* all yielded links, stops at the first page without links, and the show
\* contributes exactly the links of the pages before it, in order.
C8_SeasonWalkStopsOnEmpty ==
  /\ [](pc = "season" =>
          /\ season = Len(history) + 1
          /\ url = SeasonUrl(all_series[show_i].url, season)
          /\ \A k \in 1..Len(history) : history[k] # <<>>
          /\ all_episodes = JoinedPages(all_series[show_i].url, history))
  /\ [](pc = "write" =>
          LET contrib == JoinedPages(all_series[show_i].url, history)
              n == Len(contrib) - Len(episode_urls)
          IN /\ n >= 0 /\ Len(outfile) >= n
             /\ episode_urls = SubSeq(contrib, n + 1, Len(contrib))
             /\ SubSeq(outfile, Len(outfile) - n + 1, Len(outfile))
                  = SubSeq(contrib, 1, n))
  /\ [][ (pc = "season" /\ bg = "returned" /\ response.body = <<>>
          /\ interrupts' = interrupts)
         => /\ pc' = "write" /\ bg' = "idle"
            /\ episode_urls' = JoinedPages(all_series[show_i].url, history)
       ]_vars

C8_Witness ==
  /\ pc = "write" /\ episode_urls = <<>>
  /\ Len(history) = 1 /\ Len(history[1]) = 3
  /\ total_urls = 3

\* C9 as stated: either loop, after a successfully fetched page from which
\* nothing is extracted, requests no further page.
C9_BothLoopsStopOnEmpty ==
  [][ (bg = "returned" /\ response.status = 200
       /\ \/ pc = "index" /\ ParseSeries(response.body) = <<>>
          \/ pc = "season" /\ response.body = <<>>)
      => bg' # "request" ]_vars

\* C9 amended: only the season loop stops on an empty page; the series-index
\* loop requests the next page after every successfully fetched page, empty
\* or not, and stops only at the boundary status.
C9_OnlySeasonLoopStopsOnEmpty ==
  [][ (bg = "returned" /\ interrupts' = interrupts)
      => /\ (pc = "season" /\ response.body = <<>>)
            => pc' = "write" /\ bg' # "request"
         /\ (pc = "index" /\ response.status # 400)
            => pc' = "index" /\ bg' = "request" /\ url' = IndexUrl(page + 1)
         /\ (pc = "index" /\ response.status = 400)
            => pc' = "truncate" /\ bg' # "request" ]_vars

C9_Witness ==
  /\ pc = "index" /\ bg = "request" /\ page = 2
  /\ ParseSeries(history[1]) = <<>>

\* C10: blocking_get returns only a 200 response after the polite sleep, or
\* a 400 when allow_400_stop is set (never for a season page); every failed
\* attempt, a 400 without the flag included, is followed by the backoff sleep
\* and a new attempt on the same URL.
C10_RetryUntilSuccess ==
  /\ [](bg = "returned" =>
          \/ response.status = 200 /\ last_sleep = RequestDelay
          \/ response.status = 400 /\ allow_400_stop)
  /\ [](pc = "season" => ~allow_400_stop)
  /\ [][ (bg = "request" /\ interrupts' = interrupts)
         => /\ status' = "running" /\ url' = url
            /\ bg' \in {"backoff_sleep", "polite_sleep", "returned"}
            /\ (bg' = "backoff_sleep") <=> (console' \in RetryMessages) ]_vars
  /\ [][ (bg = "backoff_sleep" /\ interrupts' = interrupts)
         => /\ bg' = "request" /\ status' = "running"
            /\ url' = url /\ allow_400_stop' = allow_400_stop
            /\ last_sleep' = 2 * RequestDelay ]_vars

C10_Witness ==
  /\ pc = "season" /\ bg = "request"
  /\ console = "HTTP 400 error, retrying slowly..."
  /\ last_sleep = 2 * RequestDelay

=============================================================================
